---- MODULE Spec2Model ----
(***************************************************************************)
(* Conway's Game of Life on a bounded grid, driven by a terminal session   *)
(* (LuMarans30/conway-game-life-ratatui).                                  *)
(*                                                                         *)
(* Six specifications share this module:                                   *)
(*   SpecGen  the generation engine (compute_next_generation / tick)       *)
(*            applied to every well-formed grid up to the bounds;          *)
(*   SpecPad  pattern centering (padding_grid, parse_text_file) applied to *)
(*            every pattern source up to the bounds;                       *)
(*   SpecRand random initialization called twice on the same arguments;    *)
(*   Spec     the session: builder calls, build, and the run loop;         *)
(*   SpecLive the run loop of a built session under fair scheduling;       *)
(*   SpecTick the run loop at speeds around the limits of the interval.    *)
(*                                                                         *)
(* Code coordinates are 0-based (x = row, y = column, as in universe.rs);  *)
(* TLA+ sequences are 1-based, so cell (x, y) is grid[x + 1][y + 1].       *)
(***************************************************************************)
EXTENDS Integers, Sequences, FiniteSets, TLC

VARIABLES
    \* --- the session (Spec) ---
    pc,             \* where the program is: "start", "builder", "built",
                    \* "failed", "panicked", "loop", "poll", "tick", "returned"
    builder,        \* the UniverseBuilder under construction
    build_result,   \* what build() gave: "None" (not called), "Ok", "Err", "Panic"
    err,            \* the parts of the error message build() returned
    passed_density, \* <<d>> once the random initializer was called with density d
    pattern,        \* <<p>> once the external decoder returned pattern p
    speed,          \* Universe.speed
    grid,           \* Universe.grid
    marker,         \* Universe.marker
    exit,           \* Universe.exit
    size,           \* Universe.size
    tick_rate,      \* run: tick_rate, in ms
    elapsed,        \* run: last_tick.elapsed() in ms, saturated at tick_rate
    run_result,     \* what run() gave: "None" (not returned), "Ok", "Err"
    key,            \* run: <<k>> while key event k, read in this iteration, is in hand
    presses,        \* number of Enter presses handled
    pending,        \* run: input events that have arrived and are not yet read
    iter,           \* run: what the current (or just finished) iteration has
                    \* done so far: renders, event reads, generation advances
    \* --- the pattern initializers alone (SpecPad) ---
    pad_in,         \* the initializer called and its arguments
    pad_out,        \* <<r>> once it has returned r
    \* --- the generation engine alone (SpecGen) ---
    gen_grid,       \* the grid handed to compute_next_generation
    gen_prev,       \* the grids before each advance taken, the latest first
    gen_steps,      \* number of advances taken
    gen_panic,      \* the last advance indexed outside a vector
    \* --- random initialization alone (SpecRand) ---
    rand_in,        \* the arguments: seed, density, size
    rand_out        \* what each call made so far has returned

builderVars == <<builder, build_result, err, passed_density, pattern>>

universeVars == <<speed, grid, marker, exit, size>>

runVars == <<tick_rate, elapsed, run_result, key, presses, pending, iter>>

sessionVars == <<pc, builderVars, universeVars, runVars>>

genVars == <<gen_grid, gen_prev, gen_steps, gen_panic>>

padVars == <<pad_in, pad_out>>

randVars == <<rand_in, rand_out>>

vars == <<sessionVars, genVars, padVars, randVars>>

(***************************************************************************)
(* Bounds of the model.                                                    *)
(***************************************************************************)
\* SpecGen: grids of at most GenMaxCells cells, advanced at most MaxGen times
GenMaxCells == 9
MaxGen == 2
\* Spec: terminal sizes of at most MaxCells cells, pattern files of at most
\* MaxTextLen characters, decoded patterns of at most MaxPatternCells cells,
\* at most MaxPresses presses of Enter
MaxCells == 4
MaxTextLen == 3
MaxPatternCells == 4
MaxPresses == 5
\* Spec: at most MaxPending input events wait unread, and a step takes at
\* most MaxLag tick intervals (longer waits are not told apart)
MaxPending == 2
MaxLag == 2
\* SpecLive: sessions of at most LiveMaxCells cells
LiveMaxCells == 2
\* SpecPad: grids of at most MaxCells cells, decoded patterns of at most
\* MaxPatternCells cells, pattern texts of at most PadMaxTextLen characters
PadMaxTextLen == 4

Min(a, b) == IF a < b THEN a ELSE b

(***************************************************************************)
(* cell.rs: a cell is its is_alive flag.                                   *)
(***************************************************************************)
Cell_default == FALSE

Cell_new(alive) == alive

is_alive(cell) == cell

\* vec![Cell::default(); n]
DeadRow(n) == [i \in 1..n |-> Cell_default]

\* Every rectangular grid of the given dimensions.
Grids(rows, cols) == [1..rows -> [1..cols -> BOOLEAN]]

\* The dimensions <<rows, cols>> of the grids of at most n cells; a dimension
\* may be 0.
Dimensions(n) == {d \in (0..n) \X (0..n) : d[1] * d[2] <= n}

(***************************************************************************)
(* universe.rs: the generation engine.                                     *)
(***************************************************************************)
NEIGHBOR_OFFSETS ==
    << <<-1, -1>>, <<-1, 0>>, <<-1, 1>>,
       <<0, -1>>,             <<0, 1>>,
       <<1, -1>>,  <<1, 0>>,  <<1, 1>> >>

\* Whether current_grid[x][y] is an index inside both vectors; a Rust index
\* outside them aborts the program.
InVec(current_grid, x, y) ==
    /\ x >= 0 /\ x < Len(current_grid)
    /\ y >= 0 /\ y < Len(current_grid[x + 1])

\* let x = x as i32 + dx; let y = y as i32 + dy;
neighbor_pos(x, y, off) == <<x + off[1], y + off[2]>>

\* A mutant of neighbor_filter: the lower bounds are not tested.
neighbor_filter_NoLowerBound(rows, cols, p) == p[1] < rows /\ p[2] < cols

\* (x >= 0 && x < rows as i32 && y >= 0 && y < cols as i32)
neighbor_filter(rows, cols, p) ==
    p[1] >= 0 /\ p[1] < rows /\ p[2] >= 0 /\ p[2] < cols

\* The indices i of NEIGHBOR_OFFSETS whose position passes the filter, i.e.
\* the neighbours tick reads.
considered(rows, cols, x, y) ==
    {i \in 1..8 : neighbor_filter(rows, cols, neighbor_pos(x, y, NEIGHBOR_OFFSETS[i]))}

\* The positions tick indexes current_grid at: the cell and the considered
\* neighbours.
tick_reads(rows, cols, x, y) ==
    {<<x, y>>} \cup
    {neighbor_pos(x, y, NEIGHBOR_OFFSETS[i]) : i \in considered(rows, cols, x, y)}

\* tick aborts when one of its reads is outside the vectors.
tick_panics(rows, cols, current_grid, x, y) ==
    \E p \in tick_reads(rows, cols, x, y) : ~InVec(current_grid, p[1], p[2])

\* .filter(|&alive| alive).count()
alive_neighbors(rows, cols, current_grid, x, y) ==
    Cardinality({i \in considered(rows, cols, x, y) :
        LET p == neighbor_pos(x, y, NEIGHBOR_OFFSETS[i])
        IN  InVec(current_grid, p[1], p[2]) /\ is_alive(current_grid[p[1] + 1][p[2] + 1])})

\* A mutant of life_rule: a live cell with 2 neighbours dies.
life_rule_Only3(alive, n) == n = 3

\* matches!((cell.is_alive(), alive_neighbors), (true, 2 | 3) | (false, 3))
life_rule(alive, n) == (alive /\ n \in {2, 3}) \/ (~alive /\ n = 3)

tick(rows, cols, current_grid, x, y) ==
    life_rule(InVec(current_grid, x, y) /\ is_alive(current_grid[x + 1][y + 1]),
              alive_neighbors(rows, cols, current_grid, x, y))

\* A mutant of compute_next_generation: the cells are rewritten in place, row
\* by row, so that a cell sees the new state of the neighbours before it.
RECURSIVE InPlace(_, _, _, _)
InPlace(g, rows, cols, k) ==
    IF k >= rows * cols
    THEN g
    ELSE LET x == k \div cols
             y == k % cols
         IN  InPlace([g EXCEPT ![x + 1][y + 1] = tick(rows, cols, g, x, y)],
                     rows, cols, k + 1)

compute_next_generation_InPlace(current_grid) ==
    LET rows == Len(current_grid)
        cols == IF rows > 0 THEN Len(current_grid[1]) ELSE 0
    IN  [panic |-> FALSE, grid |-> InPlace(current_grid, rows, cols, 0)]

\* The result of compute_next_generation: the new grid, and whether building
\* it aborted on an out-of-range index.
compute_next_generation(current_grid) ==
    LET rows == Len(current_grid)
        cols == IF rows > 0 THEN Len(current_grid[1]) ELSE 0
    IN  [panic |-> \E x \in 0..(rows - 1), y \in 0..(cols - 1) :
                      tick_panics(rows, cols, current_grid, x, y),
         grid  |-> [x \in 1..rows |->
                      [y \in 1..cols |->
                          Cell_new(tick(rows, cols, current_grid, x - 1, y - 1))]]]

(***************************************************************************)
(* Pattern text.  A text is a sequence of characters; "E2" stands for a    *)
(* character whose UTF-8 encoding takes two bytes (str::len counts bytes,  *)
(* chars() counts characters).                                             *)
(***************************************************************************)
Chars == {".", "O", "!", "\n", "E2"}

len_utf8(c) == IF c = "E2" THEN 2 ELSE 1

Texts(n) == UNION {[1..k -> Chars] : k \in 0..n}

RECURSIVE str_len(_)
\* str::len: the length of a line in bytes
str_len(line) ==
    IF line = <<>> THEN 0 ELSE len_utf8(Head(line)) + str_len(Tail(line))

RECURSIVE lines_from(_, _, _)
\* str::lines: the text split at "\n"; a last line without "\n" counts, an
\* empty remainder after the last "\n" does not.
lines_from(text, cur, acc) ==
    IF text = <<>>
    THEN IF cur = <<>> THEN acc ELSE Append(acc, cur)
    ELSE IF Head(text) = "\n"
         THEN lines_from(Tail(text), <<>>, Append(acc, cur))
         ELSE lines_from(Tail(text), Append(cur, Head(text)), acc)

lines(text) == lines_from(text, <<>>, <<>>)

\* A mutant of keep_line: comment lines are kept as pattern rows.
keep_line_KeepsComments(line) == line # <<>>

\* .filter(|line| !line.is_empty() && !line.starts_with("!"))
keep_line(line) == line # <<>> /\ Head(line) # "!"

pattern_lines_of(text) == SelectSeq(lines(text), keep_line)

RECURSIVE max_len(_)
\* .map(|line| line.len()).max().unwrap_or(0)
max_len(ls) ==
    IF ls = <<>> THEN 0
    ELSE LET m == max_len(Tail(ls))
             n == str_len(Head(ls))
         IN  IF n > m THEN n ELSE m

(***************************************************************************)
(* Results of the grid initializers: status "Ok" with the grid, "Err" with *)
(* the error (its text and the values formatted into it), or "Panic" when  *)
(* the code aborts.                                                        *)
(***************************************************************************)
NoError == [text |-> "", args |-> <<>>]

Ok(g) == [status |-> "Ok", grid |-> g, err |-> NoError]

Err(text, args) == [status |-> "Err", grid |-> <<>>, err |-> [text |-> text, args |-> args]]

Panic == [status |-> "Panic", grid |-> <<>>, err |-> NoError]

\* Error::msg("Grid too small for pattern"): a fixed text, no formatted
\* arguments.
GridTooSmall == Err("Grid too small for pattern", <<>>)

\* A mutant of too_large: only the width is compared.
too_large_WidthOnly(pattern_width, pattern_height, grid_width, grid_height) ==
    pattern_width > grid_width

\* if pattern_width > grid_width || pattern_height > grid_height
too_large(pattern_width, pattern_height, grid_width, grid_height) ==
    pattern_width > grid_width \/ pattern_height > grid_height

\* A mutant of center_pad: the offset is rounded up, so odd leftover padding
\* goes to the top and the left.
center_pad_RoundUp(grid_len, pattern_len) == (grid_len - pattern_len + 1) \div 2

\* (grid_len - pattern_len) / 2, for pattern_len <= grid_len
center_pad(grid_len, pattern_len) == (grid_len - pattern_len) \div 2

\* grid_len.saturating_sub(pattern_len) / 2
saturating_half(grid_len, pattern_len) ==
    (IF grid_len > pattern_len THEN grid_len - pattern_len ELSE 0) \div 2

\* A mutant of fill_count: the loop tests <= and pushes one row too many.
fill_count_OneMore(len, grid_height) ==
    IF len <= grid_height THEN grid_height - len + 1 ELSE 0

\* while self.grid.len() < grid_height { push }: the number of rows pushed
fill_count(len, grid_height) ==
    IF len < grid_height THEN grid_height - len ELSE 0

\* One pattern row of parse_text_file: a dead row of grid_width cells with the
\* line's characters written from left_pad on.
text_row(line, left_pad, grid_width) ==
    LET start_idx == left_pad
        end_idx   == Min(left_pad + str_len(line), grid_width)
        taken     == Min(end_idx - start_idx, Len(line))
    IN  [j \in 1..grid_width |->
            IF j - 1 >= start_idx /\ j - 1 < start_idx + taken
            THEN Cell_new(line[j - start_idx] # ".")
            ELSE Cell_default]

\* Universe::parse_text_file (universe.rs) on a file that reads as `text`.
parse_text_file(text, grid_width, grid_height) ==
    LET pattern_lines  == pattern_lines_of(text)
        pattern_height == Len(pattern_lines)
        pattern_width  == max_len(pattern_lines)
    IN  IF too_large(pattern_width, pattern_height, grid_width, grid_height)
        THEN GridTooSmall
        ELSE LET top_pad  == saturating_half(grid_height, pattern_height)
                 left_pad == saturating_half(grid_width, pattern_width)
                 top      == [i \in 1..top_pad |-> DeadRow(grid_width)]
                 rows     == [i \in 1..pattern_height |->
                                 text_row(pattern_lines[i], left_pad, grid_width)]
                 placed   == top \o rows
                 fill     == [i \in 1..fill_count(Len(placed), grid_height) |->
                                 DeadRow(grid_width)]
             IN  Ok(placed \o fill)

\* FileParser::parse_text_file (file_parser.rs): the same algorithm over
\* self.width and self.height.
FileParser_parse_text_file(text, width, height) ==
    LET pattern_lines  == pattern_lines_of(text)
        pattern_height == Len(pattern_lines)
        pattern_width  == max_len(pattern_lines)
    IN  IF too_large(pattern_width, pattern_height, width, height)
        THEN GridTooSmall
        ELSE LET top_pad  == saturating_half(height, pattern_height)
                 left_pad == saturating_half(width, pattern_width)
                 top      == [i \in 1..top_pad |-> DeadRow(width)]
                 rows     == [i \in 1..pattern_height |->
                                 text_row(pattern_lines[i], left_pad, width)]
                 placed   == top \o rows
                 fill     == [i \in 1..fill_count(Len(placed), height) |->
                                 DeadRow(width)]
             IN  Ok(placed \o fill)

(***************************************************************************)
(* parser.rs: a decoded pattern (rletxtconv's Universe) is its width, its  *)
(* height and width * height cells in row-major order.                     *)
(***************************************************************************)
Patterns(max_cells) ==
    UNION {[width : {d[2]}, height : {d[1]}, cells : [1..(d[1] * d[2]) -> BOOLEAN]] :
              d \in Dimensions(max_cells)}

\* universe.cells.chunks(pattern_width): the number of chunks
chunk_count(len, chunk_size) == (len + chunk_size - 1) \div chunk_size

\* padding_grid (parser.rs).  chunks(0) aborts; an index outside the grid
\* aborts.
padding_grid(universe, grid_width, grid_height) ==
    LET pattern_width  == universe.width
        pattern_height == universe.height
    IN  IF too_large(pattern_width, pattern_height, grid_width, grid_height)
        THEN GridTooSmall
        ELSE IF pattern_width = 0
        THEN Panic
        ELSE LET top_pad  == center_pad(grid_height, pattern_height)
                 left_pad == center_pad(grid_width, pattern_width)
                 n        == Len(universe.cells)
                 \* the cell of the pattern written to grid position (r, c), as
                 \* an index of universe.cells, or 0 when none is
                 src(r, c) ==
                     IF /\ r >= top_pad /\ c >= left_pad /\ c < left_pad + pattern_width
                        /\ (r - top_pad) * pattern_width + (c - left_pad) + 1 <= n
                     THEN (r - top_pad) * pattern_width + (c - left_pad) + 1
                     ELSE 0
                 overflow ==
                     \/ top_pad + chunk_count(n, pattern_width) > grid_height
                     \/ n > 0 /\ left_pad + Min(n, pattern_width) > grid_width
             IN  IF overflow THEN Panic
                 ELSE Ok([i \in 1..grid_height |->
                            [j \in 1..grid_width |->
                                IF src(i - 1, j - 1) > 0
                                THEN Cell_new(universe.cells[src(i - 1, j - 1)])
                                ELSE Cell_default]])

(***************************************************************************)
(* The session: configuration values the builders are called with.         *)
(***************************************************************************)
DEFAULT_SPEED == 30

\* terminal.size(): every size up to the bounds, zero included
Sizes == {[width |-> d[2], height |-> d[1]] : d \in Dimensions(MaxCells)}

\* u32 ticks per second: invalid (0), the default (tick every 33 ms), one
\* tick per ms, and a speed above 1000 (a tick interval of 0 ms)
Speeds == {0, DEFAULT_SPEED, 1000, 2000}

Seeds == {1, 7}

\* Densities in halves: -1/2, 0, 1/2, 1, 3/2.
Densities == {-1, 0, 1, 2, 3}

\* (0.0..=1.0).contains(&density), in halves
density_in_range(density) == 0 <= density /\ density <= 2

\* density.clamp(0.0, 1.0), in halves
clamp_density(density) ==
    IF density < 0 THEN 0 ELSE IF density > 2 THEN 2 ELSE density

\* A path names a file that either cannot be read or reads as a text.
Unreadable == [readable |-> FALSE, text |-> <<>>]

Files == {Unreadable} \cup [readable : {TRUE}, text : Texts(MaxTextLen)]

\* The pattern source handed to the external decoder (rletxtconv); its text
\* is not interpreted here.
Opaque == [readable |-> TRUE, text |-> <<>>]

Markers == {"Dot", "Braille", "Block", "HalfBlock", "Bar"}

\* The builder once build(self) has consumed it, and before new().
NoBuilder ==
    [variant |-> "none", size |-> [width |-> 0, height |-> 0], speed |-> 0,
     kind |-> "none", seed |-> 0, density |-> 0, source |-> Unreadable]

(***************************************************************************)
(* Random initialization.  `bits` is what the seeded generator yields:     *)
(* bits[i] says whether the i-th uniform sample falls below 1/2.           *)
(***************************************************************************)
\* rng.random_bool(p): never true for p = 0, always true for p = 1
random_bool(density, bit) ==
    IF density = 0 THEN FALSE ELSE IF density = 2 THEN TRUE ELSE bit

\* Universe::initialize_random (universe.rs).  random_bool aborts on a
\* probability outside [0, 1]; with no cell to draw it is never called.
initialize_random(bits, density, width, height) ==
    IF width * height > 0 /\ ~density_in_range(density)
    THEN Panic
    ELSE Ok([i \in 1..height |->
               [j \in 1..width |->
                   Cell_new(random_bool(density, bits[(i - 1) * width + j]))]])

\* Universe::init_random, called by universe_builder.rs and absent from the
\* sources: taken to be initialize_random under its later name.
init_random(bits, density, width, height) ==
    initialize_random(bits, density, width, height)

\* Parser::parse (parser.rs): decode, then padding_grid.  `decoded` is <<>>
\* when the decoder fails and <<universe>> otherwise.
Parser_parse(decoded, width, height) ==
    IF decoded = <<>>
    THEN Err("pattern decoding failed", <<>>)
    ELSE padding_grid(decoded[1], width, height)

\* Universe::parse, called by universe_builder.rs and absent from the
\* sources: Parser::new(size.width, size.height).parse(input), the grid
\* stored on success.
Universe_parse(decoded, width, height) == Parser_parse(decoded, width, height)

(***************************************************************************)
(* universe.rs: UniverseBuilder as defined beside Universe.                *)
(***************************************************************************)
new_universe_rs ==
    /\ pc = "start"
    /\ \E sz \in Sizes :
        builder' = [variant |-> "universe", size |-> sz, speed |-> DEFAULT_SPEED,
                    kind |-> "Random", seed |-> 1, density |-> 1,
                    source |-> Unreadable]
    /\ pc' = "builder"
    /\ UNCHANGED <<build_result, err, passed_density, pattern, universeVars, runVars>>

speed_universe_rs ==
    /\ pc = "builder" /\ builder.variant = "universe"
    /\ \E s \in Speeds : builder' = [builder EXCEPT !.speed = s]
    /\ UNCHANGED <<pc, build_result, err, passed_density, pattern, universeVars, runVars>>

random_universe_rs ==
    /\ pc = "builder" /\ builder.variant = "universe"
    /\ \E seed \in Seeds, density \in Densities :
        builder' = [builder EXCEPT !.kind = "Random", !.seed = seed,
                                   !.density = density, !.source = Unreadable]
    /\ UNCHANGED <<pc, build_result, err, passed_density, pattern, universeVars, runVars>>

\* with_file replaces the initialization; a second call would only replace
\* the path again, so one call per builder is explored.
with_file_universe_rs ==
    /\ pc = "builder" /\ builder.variant = "universe"
    /\ builder.kind # "File"
    /\ \E path \in Files :
        builder' = [builder EXCEPT !.kind = "File", !.source = path,
                                   !.seed = 0, !.density = 0]
    /\ UNCHANGED <<pc, build_result, err, passed_density, pattern, universeVars, runVars>>

\* A mutant of propagate: the caller unwraps nothing and goes on to run
\* whatever build() returned.
propagate_RunsAnyway(status) == IF status = "Panic" THEN "panicked" ELSE "built"

\* main.rs: `match command { .. }?` -- the caller goes on to universe.run
\* only with Ok(universe); an Err returns from run() at once.
propagate(status) ==
    CASE status = "Ok" -> "built"
      [] status = "Err" -> "failed"
      [] OTHER -> "panicked"

\* The state build() leaves when it returns Ok(universe).
Built(r, d) ==
    /\ pc' = propagate("Ok")
    /\ build_result' = "Ok"
    /\ err' = NoError
    /\ passed_density' = d
    /\ speed' = builder.speed
    /\ grid' = r.grid
    /\ marker' = "Block"
    /\ exit' = FALSE
    /\ size' = builder.size

\* The state build() leaves when it returns Err or aborts: the universe it
\* was filling is dropped.
NotBuilt(r, d) ==
    /\ pc' = propagate(r.status)
    /\ build_result' = r.status
    /\ err' = r.err
    /\ passed_density' = d
    /\ UNCHANGED universeVars

Finish(r, d) == IF r.status = "Ok" THEN Built(r, d) ELSE NotBuilt(r, d)

\* if !(0.0..=1.0).contains(&density) { return Err(..) }
density_rejected(density) == ~density_in_range(density)

build_universe_rs ==
    /\ pc = "builder" /\ builder.variant = "universe"
    /\ \/ /\ builder.kind = "Random"
          /\ IF density_rejected(builder.density)
             THEN Finish(Err("Density must be in range [0,1]", <<>>), <<>>)
             ELSE \E bits \in [1..(builder.size.width * builder.size.height) -> BOOLEAN] :
                    Finish(initialize_random(bits, builder.density,
                                             builder.size.width, builder.size.height),
                           <<builder.density>>)
       \/ /\ builder.kind = "File"
          /\ IF ~builder.source.readable
             THEN Finish(Err("io error", <<>>), <<>>)
             ELSE Finish(parse_text_file(builder.source.text,
                                         builder.size.width, builder.size.height),
                         <<>>)
    /\ UNCHANGED <<builder, pattern, runVars>>

(***************************************************************************)
(* universe_builder.rs: the builder main.rs uses.  The color it carries    *)
(* reaches only the renderer and is left out.                              *)
(***************************************************************************)
UniverseBuilder_new ==
    /\ pc = "start"
    /\ \E sz \in Sizes, sp \in {<<>>} \cup {<<s>> : s \in Speeds},
          sd \in {<<>>} \cup {<<s>> : s \in Seeds},
          dn \in {<<>>} \cup {<<d>> : d \in Densities} :
        builder' = [variant |-> "universe_builder", size |-> sz,
                    speed |-> IF sp = <<>> THEN DEFAULT_SPEED ELSE sp[1],
                    kind |-> "Random",
                    seed |-> IF sd = <<>> THEN 1 ELSE sd[1],
                    density |-> clamp_density(IF dn = <<>> THEN 1 ELSE dn[1]),
                    source |-> Unreadable]
    /\ pc' = "builder"
    /\ UNCHANGED <<build_result, err, passed_density, pattern, universeVars, runVars>>

UniverseBuilder_speed ==
    /\ pc = "builder" /\ builder.variant = "universe_builder"
    /\ \E s \in Speeds : builder' = [builder EXCEPT !.speed = s]
    /\ UNCHANGED <<pc, build_result, err, passed_density, pattern, universeVars, runVars>>

UniverseBuilder_random ==
    /\ pc = "builder" /\ builder.variant = "universe_builder"
    /\ \E seed \in Seeds, density \in Densities :
        builder' = [builder EXCEPT !.kind = "Random", !.seed = seed,
                                   !.density = density, !.source = Unreadable]
    /\ UNCHANGED <<pc, build_result, err, passed_density, pattern, universeVars, runVars>>

UniverseBuilder_with_file ==
    /\ pc = "builder" /\ builder.variant = "universe_builder"
    /\ builder' = [builder EXCEPT !.kind = "File", !.source = Opaque,
                                  !.seed = 0, !.density = 0]
    /\ UNCHANGED <<pc, build_result, err, passed_density, pattern, universeVars, runVars>>

UniverseBuilder_with_stdin ==
    /\ pc = "builder" /\ builder.variant = "universe_builder"
    /\ builder' = [builder EXCEPT !.kind = "Stdin", !.source = Opaque,
                                  !.seed = 0, !.density = 0]
    /\ UNCHANGED <<pc, build_result, err, passed_density, pattern, universeVars, runVars>>

UniverseBuilder_build ==
    /\ pc = "builder" /\ builder.variant = "universe_builder"
    /\ \/ /\ builder.kind = "Random"
          /\ \E bits \in [1..(builder.size.width * builder.size.height) -> BOOLEAN] :
                Finish(init_random(bits, builder.density,
                                   builder.size.width, builder.size.height),
                       <<builder.density>>)
          /\ UNCHANGED pattern
       \/ /\ builder.kind \in {"File", "Stdin"}
          /\ \E decoded \in {<<>>} \cup
                    {<<p>> : p \in Patterns(MaxPatternCells)} :
                /\ Finish(Universe_parse(decoded, builder.size.width,
                                         builder.size.height), <<>>)
                /\ pattern' = decoded
    /\ UNCHANGED <<builder, runVars>>

(***************************************************************************)
(* universe.rs: Universe::run and the key handler.                         *)
(***************************************************************************)
KeyKinds == {"Press", "Release"}

\* 'q', Enter, and one other key
KeyCodes == {"q", "Enter", "x"}

Keys == [kind : KeyKinds, code : KeyCodes]

\* A mutant of next_marker: HalfBlock goes back to Dot, and Bar is skipped.
next_marker_SkipsBar(m) ==
    CASE m = "Dot" -> "Braille"
      [] m = "Braille" -> "Block"
      [] m = "Block" -> "HalfBlock"
      [] m = "HalfBlock" -> "Dot"
      [] m = "Bar" -> "Dot"

\* self.marker = match self.marker { .. }
next_marker(m) ==
    CASE m = "Dot" -> "Braille"
      [] m = "Braille" -> "Block"
      [] m = "Block" -> "HalfBlock"
      [] m = "HalfBlock" -> "Bar"
      [] m = "Bar" -> "Dot"

\* KeyCode::Char('q') => self.exit = true
quit_exit(old_exit) == TRUE

\* A mutant of handle_key_press: the kind of the event is not tested, so a
\* release acts like a press.
handle_key_press_IgnoresKind(k, old_exit, old_marker) ==
    CASE k.code = "q" -> [exit |-> quit_exit(old_exit), marker |-> old_marker]
      [] k.code = "Enter" -> [exit |-> old_exit, marker |-> next_marker(old_marker)]
      [] OTHER -> [exit |-> old_exit, marker |-> old_marker]

\* A mutant of handle_key_press: every key but 'q' cycles the marker.
handle_key_press_AnyKeyCycles(k, old_exit, old_marker) ==
    IF k.kind # "Press"
    THEN [exit |-> old_exit, marker |-> old_marker]
    ELSE CASE k.code = "q" -> [exit |-> quit_exit(old_exit), marker |-> old_marker]
           [] OTHER -> [exit |-> old_exit, marker |-> next_marker(old_marker)]

\* Universe::handle_key_press: the exit flag and the marker it leaves.
handle_key_press(k, old_exit, old_marker) ==
    IF k.kind # "Press"
    THEN [exit |-> old_exit, marker |-> old_marker]
    ELSE CASE k.code = "q" -> [exit |-> quit_exit(old_exit), marker |-> old_marker]
           [] k.code = "Enter" -> [exit |-> old_exit, marker |-> next_marker(old_marker)]
           [] OTHER -> [exit |-> old_exit, marker |-> old_marker]

\* Durations that pass in one step, given the tick interval: none, half an
\* interval (rounded up), a whole interval, MaxLag intervals.
Delays(rate) == {0, (rate + 1) \div 2, rate, MaxLag * rate}

\* last_tick.elapsed() after d more ms; only its comparison with tick_rate
\* and the remaining budget are observed, so it is kept saturated at MaxLag
\* intervals.
later(d) == Min(elapsed + d, MaxLag * tick_rate)

\* A mutant of timeout: the poll is given the whole interval every time.
timeout_WholeInterval == tick_rate

\* tick_rate.saturating_sub(last_tick.elapsed())
timeout == IF tick_rate > elapsed THEN tick_rate - elapsed ELSE 0

\* Nothing done yet in this iteration.
NoIter == [renders |-> 0, reads |-> 0, advances |-> 0]

\* A mutant of from_millis: the quotient is rounded up.
from_millis_RoundsUp(sp) == (1000 + sp - 1) \div sp

\* Duration::from_millis(1000 / self.speed as u64), for speed > 0: the
\* integer quotient, in ms
from_millis(sp) == 1000 \div sp

\* let tick_rate = Duration::from_millis(1000 / self.speed as u64);
\* let mut last_tick = Instant::now();  -- the division aborts for speed 0
run_enter ==
    /\ pc = "built"
    /\ IF speed = 0
       THEN /\ pc' = "panicked"
            /\ UNCHANGED <<tick_rate, elapsed>>
       ELSE /\ pc' = "loop"
            /\ tick_rate' = from_millis(speed)
            /\ elapsed' = 0
    /\ builder' = NoBuilder
    /\ passed_density' = <<>>
    /\ pattern' = <<>>
    /\ UNCHANGED <<build_result, err, universeVars, run_result, key, presses, pending, iter>>

\* A mutant of loop_continues: the loop runs whatever the flag.
loop_continues_Always(exit_flag) == TRUE

\* while !self.exit
loop_continues(exit_flag) == ~exit_flag

\* The loop test fails: run returns Ok(()).
run_return ==
    /\ pc = "loop"
    /\ ~loop_continues(exit)
    /\ pc' = "returned"
    /\ run_result' = "Ok"
    /\ UNCHANGED <<builderVars, universeVars, tick_rate, elapsed, key, presses, pending, iter>>

\* terminal.draw(|frame| self.draw(frame))?  -- reads the grid, takes time;
\* input events may arrive meanwhile
draw ==
    /\ pc = "loop"
    /\ loop_continues(exit)
    /\ \E d \in Delays(tick_rate) : elapsed' = later(d)
    /\ \E a \in 0..(MaxPending - pending) : pending' = pending + a
    /\ iter' = [NoIter EXCEPT !.renders = 1]
    /\ pc' = "poll"
    /\ UNCHANGED <<builderVars, universeVars, tick_rate, run_result, key, presses>>

\* terminal.draw(..)? fails: run returns the error.
draw_fails ==
    /\ pc = "loop"
    /\ loop_continues(exit)
    /\ pc' = "returned"
    /\ run_result' = "Err"
    /\ UNCHANGED <<builderVars, universeVars, tick_rate, elapsed, key, presses, pending, iter>>

\* event::poll(timeout)? is false: no event was waiting and the whole budget
\* has passed.
poll_timeout ==
    /\ pc = "poll"
    /\ pending = 0
    /\ elapsed' = later(timeout)
    /\ pc' = "tick"
    /\ UNCHANGED <<builderVars, universeVars, tick_rate, run_result, key, presses, pending, iter>>

\* The time event::poll waits before it answers true: none when an event is
\* waiting, else the time until one arrives, within the budget.
poll_waits(d) == IF pending > 0 THEN d = 0 ELSE d <= timeout

\* event::read() takes the oldest waiting event, or the one that just arrived.
after_read(n) == IF n > 0 THEN n - 1 ELSE 0

\* event::poll(timeout)? is true within the budget and event::read()? gives
\* a key event: handle_key_press.
poll_key ==
    /\ pc = "poll"
    /\ \E d \in Delays(tick_rate), k \in Keys :
        /\ poll_waits(d)
        /\ (k.kind = "Press" /\ k.code = "Enter") => presses < MaxPresses
        /\ elapsed' = later(d)
        /\ LET after == handle_key_press(k, exit, marker)
           IN  /\ exit' = after.exit
               /\ marker' = after.marker
        /\ key' = <<k>>
        /\ presses' = IF k.kind = "Press" /\ k.code = "Enter"
                      THEN presses + 1 ELSE presses
    /\ pending' = after_read(pending)
    /\ iter' = [iter EXCEPT !.reads = @ + 1]
    /\ pc' = "tick"
    /\ UNCHANGED <<builderVars, speed, grid, size, tick_rate, run_result>>

\* event::poll(timeout)? is true and event::read()? gives an event that is no
\* key event (mouse, resize): nothing is handled.
poll_other ==
    /\ pc = "poll"
    /\ \E d \in Delays(tick_rate) :
        /\ poll_waits(d)
        /\ elapsed' = later(d)
    /\ pending' = after_read(pending)
    /\ iter' = [iter EXCEPT !.reads = @ + 1]
    /\ pc' = "tick"
    /\ UNCHANGED <<builderVars, universeVars, tick_rate, run_result, key, presses>>

\* event::poll(timeout)? or event::read()? fails: run returns the error.
poll_fails ==
    /\ pc = "poll"
    /\ pc' = "returned"
    /\ run_result' = "Err"
    /\ UNCHANGED <<builderVars, universeVars, tick_rate, elapsed, key, presses, pending, iter>>

\* A mutant of tick_due: the grid advances on every iteration.
tick_due_Always(since, rate) == TRUE

\* A mutant of tick_due: the quit key pre-empts the tick check.
tick_due_NotAfterQuit(since, rate) == ~exit /\ since >= rate

\* if last_tick.elapsed() >= tick_rate
tick_due(since, rate) == since >= rate

\* A mutant of restart_timer: the timer keeps the time beyond one interval,
\* so that missed ticks are caught up.
restart_timer_CatchesUp(since, rate) == since - rate

\* last_tick = Instant::now();
restart_timer(since, rate) == 0

\* The tick interval has elapsed: the grid is replaced by its next generation
\* and the timer restarts.
advance ==
    /\ pc = "tick"
    /\ tick_due(elapsed, tick_rate)
    /\ \E r \in {compute_next_generation(grid)} :
           IF r.panic
           THEN /\ pc' = "panicked"
                /\ UNCHANGED <<grid, elapsed, iter>>
           ELSE /\ pc' = "loop"
                /\ grid' = r.grid
                /\ elapsed' = restart_timer(elapsed, tick_rate)
                /\ iter' = [iter EXCEPT !.advances = @ + 1]
    /\ key' = <<>>
    /\ UNCHANGED <<builderVars, speed, marker, exit, size, tick_rate, run_result, presses, pending>>

\* The tick interval has not elapsed: the iteration ends.
no_advance ==
    /\ pc = "tick"
    /\ ~tick_due(elapsed, tick_rate)
    /\ pc' = "loop"
    /\ key' = <<>>
    /\ UNCHANGED <<builderVars, universeVars, tick_rate, elapsed, run_result, presses, pending, iter>>

(***************************************************************************)
(* Spec: the session from the first builder call to the return of run.     *)
(***************************************************************************)
SessionIdle ==
    /\ pc = "start"
    /\ builder = NoBuilder
    /\ build_result = "None"
    /\ err = NoError
    /\ passed_density = <<>>
    /\ pattern = <<>>
    /\ speed = 0
    /\ grid = <<>>
    /\ marker = "Block"
    /\ exit = FALSE
    /\ size = [width |-> 0, height |-> 0]
    /\ tick_rate = 0
    /\ elapsed = 0
    /\ run_result = "None"
    /\ key = <<>>
    /\ presses = 0
    /\ pending = 0
    /\ iter = NoIter

GenIdle ==
    /\ gen_grid = <<>>
    /\ gen_prev = <<>>
    /\ gen_steps = 0
    /\ gen_panic = FALSE

NoPadInput ==
    [fn |-> "none", universe |-> [width |-> 0, height |-> 0, cells |-> <<>>],
     text |-> <<>>, width |-> 0, height |-> 0]

PadIdle ==
    /\ pad_in = NoPadInput
    /\ pad_out = <<>>

RandIdle ==
    /\ rand_in = [seed |-> 0, density |-> 0, size |-> [width |-> 0, height |-> 0]]
    /\ rand_out = <<>>

Init == SessionIdle /\ GenIdle /\ PadIdle /\ RandIdle

Next ==
    \/ (new_universe_rs /\ UNCHANGED <<genVars, padVars, randVars>>)
    \/ (speed_universe_rs /\ UNCHANGED <<genVars, padVars, randVars>>)
    \/ (random_universe_rs /\ UNCHANGED <<genVars, padVars, randVars>>)
    \/ (with_file_universe_rs /\ UNCHANGED <<genVars, padVars, randVars>>)
    \/ (build_universe_rs /\ UNCHANGED <<genVars, padVars, randVars>>)
    \/ (UniverseBuilder_new /\ UNCHANGED <<genVars, padVars, randVars>>)
    \/ (UniverseBuilder_speed /\ UNCHANGED <<genVars, padVars, randVars>>)
    \/ (UniverseBuilder_random /\ UNCHANGED <<genVars, padVars, randVars>>)
    \/ (UniverseBuilder_with_file /\ UNCHANGED <<genVars, padVars, randVars>>)
    \/ (UniverseBuilder_with_stdin /\ UNCHANGED <<genVars, padVars, randVars>>)
    \/ (UniverseBuilder_build /\ UNCHANGED <<genVars, padVars, randVars>>)
    \/ (run_enter /\ UNCHANGED <<genVars, padVars, randVars>>)
    \/ (run_return /\ UNCHANGED <<genVars, padVars, randVars>>)
    \/ (draw /\ UNCHANGED <<genVars, padVars, randVars>>)
    \/ (draw_fails /\ UNCHANGED <<genVars, padVars, randVars>>)
    \/ (poll_timeout /\ UNCHANGED <<genVars, padVars, randVars>>)
    \/ (poll_key /\ UNCHANGED <<genVars, padVars, randVars>>)
    \/ (poll_other /\ UNCHANGED <<genVars, padVars, randVars>>)
    \/ (poll_fails /\ UNCHANGED <<genVars, padVars, randVars>>)
    \/ (advance /\ UNCHANGED <<genVars, padVars, randVars>>)
    \/ (no_advance /\ UNCHANGED <<genVars, padVars, randVars>>)

Spec == Init /\ [][Next]_vars

(***************************************************************************)
(* SpecLive: the run loop from a built session on, with the scheduling it  *)
(* relies on.  The thread keeps taking the next step of the loop (a        *)
(* render, a poll and a read, or the tick check, none of which blocks for  *)
(* ever), and time passes: a render that takes time keeps happening while  *)
(* the loop runs.  Failures of the terminal stay possible and are not      *)
(* forced.                                                                 *)
(***************************************************************************)
\* What UniverseBuilder::new(size, ..).speed(s).build() returns: a session
\* of any size up to LiveMaxCells cells holding any grid (density 1/2).
LiveInit ==
    /\ pc = "built"
    /\ \E sz \in {[width |-> d[2], height |-> d[1]] : d \in Dimensions(LiveMaxCells)},
          s \in Speeds :
        /\ builder = [variant |-> "universe_builder", size |-> sz, speed |-> s,
                      kind |-> "Random", seed |-> 1, density |-> 1,
                      source |-> Unreadable]
        /\ size = sz
        /\ speed = s
        /\ grid \in Grids(sz.height, sz.width)
    /\ build_result = "Ok"
    /\ err = NoError
    /\ passed_density = <<1>>
    /\ pattern = <<>>
    /\ marker = "Block"
    /\ exit = FALSE
    /\ tick_rate = 0
    /\ elapsed = 0
    /\ run_result = "None"
    /\ key = <<>>
    /\ presses = 0
    /\ pending = 0
    /\ iter = NoIter
    /\ GenIdle
    /\ PadIdle
    /\ RandIdle

LoopStep ==
    /\ \/ run_enter
       \/ run_return
       \/ draw
       \/ poll_timeout
       \/ poll_key
       \/ poll_other
       \/ advance
       \/ no_advance
    /\ UNCHANGED <<genVars, padVars, randVars>>

TerminalFails == (draw_fails \/ poll_fails) /\ UNCHANGED <<genVars, padVars, randVars>>

LiveNext == LoopStep \/ TerminalFails

TimePasses == draw /\ elapsed' > elapsed /\ UNCHANGED <<genVars, padVars, randVars>>

SpecLive == LiveInit /\ [][LiveNext]_vars /\ WF_vars(LoopStep) /\ SF_vars(TimePasses)

(***************************************************************************)
(* SpecTick: the run loop of a built session at speeds around the limits   *)
(* of the tick interval: the slowest, small ones, the default, both sides  *)
(* of 1000 ticks per second, and a very large one.  Speed 0, for which the *)
(* division aborts, is left to Spec.                                       *)
(***************************************************************************)
TickSpeeds == {1, 2, 3, DEFAULT_SPEED, 999, 1000, 1001, 1002, 2000, 1000000}

\* What UniverseBuilder::new(size, ..).speed(s).build() returns for a
\* terminal of one row of two cells.
TickInit ==
    /\ pc = "built"
    /\ \E s \in TickSpeeds :
        /\ builder = [variant |-> "universe_builder",
                      size |-> [width |-> 2, height |-> 1], speed |-> s,
                      kind |-> "Random", seed |-> 1, density |-> 1,
                      source |-> Unreadable]
        /\ speed = s
    /\ size = [width |-> 2, height |-> 1]
    /\ grid \in Grids(1, 2)
    /\ build_result = "Ok"
    /\ err = NoError
    /\ passed_density = <<1>>
    /\ pattern = <<>>
    /\ marker = "Block"
    /\ exit = FALSE
    /\ tick_rate = 0
    /\ elapsed = 0
    /\ run_result = "None"
    /\ key = <<>>
    /\ presses = 0
    /\ pending = 0
    /\ iter = NoIter
    /\ GenIdle
    /\ PadIdle
    /\ RandIdle

SpecTick == TickInit /\ [][LiveNext]_vars

(***************************************************************************)
(* SpecGen: compute_next_generation on every well-formed grid.             *)
(***************************************************************************)
GenInit ==
    /\ gen_grid \in UNION {Grids(d[1], d[2]) : d \in Dimensions(GenMaxCells)}
    /\ gen_prev = <<>>
    /\ gen_steps = 0
    /\ gen_panic = FALSE
    /\ SessionIdle
    /\ PadIdle
    /\ RandIdle

GenAdvance ==
    /\ gen_steps < MaxGen
    /\ ~gen_panic
    /\ \E r \in {compute_next_generation(gen_grid)} :
           /\ gen_panic' = r.panic
           /\ gen_grid' = IF r.panic THEN gen_grid ELSE r.grid
    /\ gen_prev' = <<gen_grid>> \o gen_prev
    /\ gen_steps' = gen_steps + 1
    /\ UNCHANGED <<sessionVars, padVars, randVars>>

GenNext == GenAdvance

SpecGen == GenInit /\ [][GenNext]_vars

(***************************************************************************)
(* SpecPad: the three pattern initializers on every input up to the        *)
(* bounds.                                                                 *)
(***************************************************************************)
PadInit ==
    /\ \E sz \in Sizes :
        \/ \E u \in Patterns(MaxPatternCells) :
              pad_in = [fn |-> "padding_grid", universe |-> u, text |-> <<>>,
                        width |-> sz.width, height |-> sz.height]
        \/ \E t \in Texts(PadMaxTextLen), f \in {"FileParser::parse_text_file",
                                                 "Universe::parse_text_file"} :
              pad_in = [fn |-> f, universe |-> NoPadInput.universe, text |-> t,
                        width |-> sz.width, height |-> sz.height]
    /\ pad_out = <<>>
    /\ SessionIdle
    /\ GenIdle
    /\ RandIdle

call_padding_grid ==
    /\ pad_out = <<>>
    /\ pad_in.fn = "padding_grid"
    /\ pad_out' = <<padding_grid(pad_in.universe, pad_in.width, pad_in.height)>>
    /\ UNCHANGED <<pad_in, sessionVars, genVars, randVars>>

call_FileParser_parse_text_file ==
    /\ pad_out = <<>>
    /\ pad_in.fn = "FileParser::parse_text_file"
    /\ pad_out' = <<FileParser_parse_text_file(pad_in.text, pad_in.width, pad_in.height)>>
    /\ UNCHANGED <<pad_in, sessionVars, genVars, randVars>>

call_parse_text_file ==
    /\ pad_out = <<>>
    /\ pad_in.fn = "Universe::parse_text_file"
    /\ pad_out' = <<parse_text_file(pad_in.text, pad_in.width, pad_in.height)>>
    /\ UNCHANGED <<pad_in, sessionVars, genVars, randVars>>

PadNext ==
    \/ call_padding_grid
    \/ call_FileParser_parse_text_file
    \/ call_parse_text_file

SpecPad == PadInit /\ [][PadNext]_vars

(***************************************************************************)
(* SpecRand: Universe::initialize_random called twice with the same        *)
(* arguments, each time on the empty grid of a universe build() has just   *)
(* made.  StdRng is stood for by a small congruential generator: what the  *)
(* model keeps of it is that its stream is a function of the state it was  *)
(* seeded with.  `entropy` is what a call could read besides its           *)
(* arguments (the clock, the operating system's generator).                *)
(***************************************************************************)
Entropies == {0, 1}

\* A mutant of seed_from_u64: the generator is seeded from the environment.
seed_from_u64_FromEntropy(seed, entropy) == (7 * entropy + 2) % 16

\* rand::rngs::StdRng::seed_from_u64(seed): the state depends on the seed only
seed_from_u64(seed, entropy) == (seed * 5 + 3) % 16

\* the generator's next state
StdRng_next(state) == (state * 13 + 7) % 16

\* The first n samples drawn from a generator in the given state: sample i
\* says whether the i-th uniform draw falls below 1/2.
RECURSIVE rng_bits(_, _)
rng_bits(state, n) ==
    IF n = 0
    THEN <<>>
    ELSE <<StdRng_next(state) < 8>> \o rng_bits(StdRng_next(state), n - 1)

RandInit ==
    /\ rand_in \in [seed : Seeds, density : Densities, size : Sizes]
    /\ rand_out = <<>>
    /\ SessionIdle
    /\ GenIdle
    /\ PadIdle

call_initialize_random ==
    /\ Len(rand_out) < 2
    /\ \E entropy \in Entropies :
        rand_out' = Append(rand_out,
            initialize_random(
                rng_bits(seed_from_u64(rand_in.seed, entropy),
                         rand_in.size.width * rand_in.size.height),
                rand_in.density, rand_in.size.width, rand_in.size.height))
    /\ UNCHANGED <<rand_in, sessionVars, genVars, padVars>>

RandNext == call_initialize_random

SpecRand == RandInit /\ [][RandNext]_vars

(***************************************************************************)
(* Claims about the generation engine (checked under SpecGen).             *)
(***************************************************************************)
\* The grid the last advance was applied to.
GenInput == gen_prev[1]

GenRows == Len(GenInput)

GenCols == IF GenRows > 0 THEN Len(GenInput[1]) ELSE 0

\* The in-bounds positions adjacent to (x, y), stated without the offset
\* table: every other position of the grid at distance at most 1 in both
\* coordinates.
Adjacent(rows, cols, x, y) ==
    {p \in (0..(rows - 1)) \X (0..(cols - 1)) :
        /\ p # <<x, y>>
        /\ p[1] - x \in {-1, 0, 1}
        /\ p[2] - y \in {-1, 0, 1}}

AliveAdjacent(G, rows, cols, x, y) ==
    Cardinality({p \in Adjacent(rows, cols, x, y) : G[p[1] + 1][p[2] + 1]})

IsCorner(rows, cols, x, y) == x \in {0, rows - 1} /\ y \in {0, cols - 1}

IsBorder(rows, cols, x, y) == x \in {0, rows - 1} \/ y \in {0, cols - 1}

\* C1: for every well-formed grid G and every cell (x, y), the cell is alive
\* in compute_next_generation(G) if and only if it is alive in G with exactly
\* 2 or 3 alive in-bounds adjacent cells, or dead in G with exactly 3; in
\* every other case it is dead.
C1_LifeRule ==
    (gen_steps > 0 /\ ~gen_panic) =>
        /\ Len(gen_grid) = GenRows
        /\ \A x \in 0..(GenRows - 1) :
            /\ Len(gen_grid[x + 1]) = GenCols
            /\ \A y \in 0..(GenCols - 1) :
                LET was == GenInput[x + 1][y + 1]
                    n   == AliveAdjacent(GenInput, GenRows, GenCols, x, y)
                IN  gen_grid[x + 1][y + 1] <=>
                        ((was /\ n \in {2, 3}) \/ (~was /\ n = 3))

\* C1 witness: the horizontal blinker in a 3 x 3 grid has been advanced to the
\* vertical one (a birth, a survival and a death all happen).
C1_Witness ==
    /\ gen_steps > 0
    /\ ~gen_panic
    /\ GenInput = << <<FALSE, FALSE, FALSE>>, <<TRUE, TRUE, TRUE>>, <<FALSE, FALSE, FALSE>> >>
    /\ gen_grid = << <<FALSE, TRUE, FALSE>>, <<FALSE, TRUE, FALSE>>, <<FALSE, TRUE, FALSE>> >>

\* What C2 says of every cell whatever the grid's size: tick reads only
\* in-bounds positions, the neighbours it considers are exactly the in-bounds
\* adjacent cells (none reached by wrapping), and the advance completes.
C2_HardEdges ==
    /\ ~gen_panic
    /\ Len(gen_grid) = GenRows
    /\ \A x \in 0..(GenRows - 1), y \in 0..(GenCols - 1) :
        /\ tick_reads(GenRows, GenCols, x, y)
              \subseteq (0..(GenRows - 1)) \X (0..(GenCols - 1))
        /\ tick_reads(GenRows, GenCols, x, y) \ {<<x, y>>}
              = Adjacent(GenRows, GenCols, x, y)
        /\ Cardinality(considered(GenRows, GenCols, x, y))
              = Cardinality(Adjacent(GenRows, GenCols, x, y))

\* C2 (as stated): hard edges as above, and a corner cell considers exactly 3
\* neighbours and an edge cell exactly 5, on every well-formed grid.
C2_Original ==
    gen_steps > 0 =>
        /\ C2_HardEdges
        /\ \A x \in 0..(GenRows - 1), y \in 0..(GenCols - 1) :
            /\ IsCorner(GenRows, GenCols, x, y) =>
                  Cardinality(considered(GenRows, GenCols, x, y)) = 3
            /\ (IsBorder(GenRows, GenCols, x, y) /\ ~IsCorner(GenRows, GenCols, x, y)) =>
                  Cardinality(considered(GenRows, GenCols, x, y)) = 5

\* C2 (amended): hard edges as above on every well-formed grid, zero-sized
\* ones included; the counts 3 (corner) and 5 (border cell that is no corner)
\* hold in grids with at least 2 rows and 2 columns.
C2_Amended ==
    gen_steps > 0 =>
        /\ C2_HardEdges
        /\ (GenRows >= 2 /\ GenCols >= 2) =>
            \A x \in 0..(GenRows - 1), y \in 0..(GenCols - 1) :
                /\ IsCorner(GenRows, GenCols, x, y) =>
                      Cardinality(considered(GenRows, GenCols, x, y)) = 3
                /\ (IsBorder(GenRows, GenCols, x, y) /\ ~IsCorner(GenRows, GenCols, x, y)) =>
                      Cardinality(considered(GenRows, GenCols, x, y)) = 5

\* C2 witness: a 3 x 3 grid (corners, edges and an interior cell) with live
\* cells on its border has been advanced.
C2_Witness ==
    /\ gen_steps > 0
    /\ ~gen_panic
    /\ GenRows = 3 /\ GenCols = 3
    /\ GenInput[1][1] /\ GenInput[1][2] /\ GenInput[3][3]


\* One simultaneous step stated cell by cell: every cell of the result is
\* tick applied to the grid G itself.
Simultaneous(G) ==
    LET rows == Len(G)
        cols == IF rows > 0 THEN Len(G[1]) ELSE 0
    IN  [i \in 1..rows |-> [j \in 1..cols |-> tick(rows, cols, G, i - 1, j - 1)]]

WellFormed(g, sz) ==
    /\ Len(g) = sz.height
    /\ \A i \in 1..Len(g) : Len(g[i]) = sz.width

\* C3: in every state of a successfully built session the grid has exactly
\* size.height rows of exactly size.width cells, whichever initializer built
\* it and whatever ticks and key events followed, and the size never changes.
C3_Rectangular ==
    /\ [](build_result = "Ok" => WellFormed(grid, size))
    /\ [][build_result = "Ok" => size' = size]_vars

\* C3 witness: a 2 x 2 session running at a tick interval of 0 ms (every
\* iteration advances) has handled a key press and finished an iteration,
\* and holds the block.
C3_Witness ==
    /\ pc = "loop"
    /\ speed = 2000
    /\ presses > 0
    /\ size = [width |-> 2, height |-> 2]
    /\ grid = << <<TRUE, TRUE>>, <<TRUE, TRUE>> >>

\* The pattern build() was given, while the builder is still in the state:
\* the filtered lines of the file (universe.rs), or what the decoder
\* returned (universe_builder.rs).
TextCase ==
    builder.variant = "universe" /\ builder.kind = "File" /\ builder.source.readable

DecodedCase == builder.variant = "universe_builder" /\ pattern # <<>>

GivenWidth ==
    IF TextCase THEN max_len(pattern_lines_of(builder.source.text))
    ELSE IF DecodedCase THEN pattern[1].width ELSE 0

GivenHeight ==
    IF TextCase THEN Len(pattern_lines_of(builder.source.text))
    ELSE IF DecodedCase THEN pattern[1].height ELSE 0

DoesNotFit ==
    /\ build_result # "None"
    /\ TextCase \/ DecodedCase
    /\ GivenWidth > builder.size.width \/ GivenHeight > builder.size.height

NoSession == build_result = "Err" /\ pc = "failed" /\ grid = <<>>

C6_DensityRejected ==
    (/\ build_result # "None"
     /\ builder.kind = "Random"
     /\ builder.density < 0 \/ builder.density > 2) =>
        /\ NoSession
        /\ passed_density = <<>>

\* C7 (as stated): build with speed = 0 returns an error, so run is never
\* entered with speed = 0 and never divides by zero.
C7_ZeroSpeedRejected ==
    /\ (build_result # "None" /\ builder.variant # "none" /\ builder.speed = 0) =>
          build_result = "Err"
    /\ ~(build_result = "Ok" /\ speed = 0 /\ pc = "panicked")

QuitPress == [kind |-> "Press", code |-> "q"]

\* C8: exit is false in every freshly built session; it changes only from
\* false to true, only when a press of 'q' is handled, and nothing resets it.
C8_ExitMonotone ==
    /\ [](pc = "built" => ~exit)
    /\ [][exit' # exit => (~exit /\ exit' /\ key' = <<QuitPress>>)]_vars

\* C8 witness: 'q' was pressed and run has returned with exit set.
C8_Witness == exit /\ pc = "returned" /\ run_result = "Ok"

\* C9 (as stated): run does not return while exit is false.
C9_Original == pc = "returned" => exit

\* C9 (amended): run returns Ok only when exit is true, and while exit is
\* false it returns only with the error of a failed render, poll or read;
\* once exit is true at the loop test no further iteration starts (no
\* render, no poll) and run returns Ok.
C9_Amended ==
    /\ [](run_result = "Ok" => exit)
    /\ []((pc = "returned" /\ ~exit) => run_result = "Err")
    /\ [][(pc = "loop" /\ exit) => (pc' = "returned" /\ run_result' = "Ok")]_vars

\* C9 witness: run has returned Ok after the quit key.
C9_Witness == pc = "returned" /\ run_result = "Ok" /\ exit /\ presses > 0

\* The fixed cyclic order of the markers, and the marker n presses of Enter
\* after the initial Block.
MarkerOrder == <<"Dot", "Braille", "Block", "HalfBlock", "Bar">>

MarkerAfter(n) == MarkerOrder[((2 + n) % 5) + 1]

\* C10: each press of Enter moves the marker to the next value of the order
\* Dot -> Braille -> Block -> HalfBlock -> Bar -> Dot; from the initial
\* Block every marker is reached and the marker is Block again after exactly
\* five presses (and not before).
C10_MarkerCycle ==
    build_result = "Ok" =>
        /\ marker = MarkerAfter(presses)
        /\ marker = "Block" <=> presses % 5 = 0

\* C10 witness: five presses of Enter have brought the marker back to Block.
C10_Witness == presses = 5 /\ marker = "Block" /\ pc = "loop"


AdvanceStep == iter'.advances = iter.advances + 1

\* The step is a render.
RenderStep == pc = "loop" /\ pc' = "poll"

\* The step reads an input event.
ReadStep == iter'.reads = iter.reads + 1

\* C11: at the tick check that follows the input poll, the grid is replaced
\* by its next generation and the timer restarts if and only if the time
\* since the last tick is at least the tick interval, whether or not an
\* event was read in the iteration; the grid advances at no other point, and
\* nothing else restarts the timer.
C11_TickWhenDue ==
    [][/\ pc = "tick" =>
            ((elapsed >= tick_rate) <=>
                (/\ AdvanceStep
                 /\ grid' = compute_next_generation(grid).grid
                 /\ elapsed' = 0))
       /\ pc = "tick" => (elapsed < tick_rate => (grid' = grid /\ elapsed' = elapsed))
       /\ AdvanceStep => (pc = "tick" /\ elapsed >= tick_rate)
       /\ (pc \in {"loop", "poll", "tick"} /\ elapsed' < elapsed) => AdvanceStep]_vars

\* C11 witness: at a tick interval of 33 ms an iteration that read an event
\* has advanced the grid.
C11_Witness ==
    /\ pc = "loop"
    /\ tick_rate = 33
    /\ iter = [renders |-> 1, reads |-> 1, advances |-> 1]
    /\ elapsed = 0
    /\ grid = << <<FALSE, FALSE>>, <<FALSE, FALSE>> >>

InRun == pc \in {"loop", "poll", "tick"}

RunOver == pc \in {"returned", "panicked"}

\* The remaining tick budget: the tick interval minus the time since the last
\* tick, zero once that has elapsed.
Budget == IF elapsed >= tick_rate THEN 0 ELSE tick_rate - elapsed

Handles(k) == pc = "poll" /\ key' = <<k>>

\* C17: handling a key event that is no press, or a press of a key other
\* than 'q' and Enter, leaves speed, grid, marker, exit and size as they
\* were; a press of 'q' changes nothing but exit, a press of Enter nothing
\* but marker; no key event changes the grid.
C17_KeyFrame ==
    [][\A k \in Keys :
        Handles(k) =>
            /\ grid' = grid /\ speed' = speed /\ size' = size
            /\ (k.kind # "Press" \/ k.code \notin {"q", "Enter"}) =>
                    (marker' = marker /\ exit' = exit)
            /\ (k.kind = "Press" /\ k.code = "q") => (marker' = marker /\ exit')
            /\ (k.kind = "Press" /\ k.code = "Enter") =>
                    (marker' # marker /\ exit' = exit)]_vars

\* C17 witness: a press of a key other than 'q' and Enter has just been
\* handled in a running session whose marker had been changed before.
C17_Witness ==
    /\ pc = "tick"
    /\ key = <<[kind |-> "Press", code |-> "x"]>>
    /\ marker = "HalfBlock"
    /\ ~exit
    /\ grid = << <<TRUE, FALSE>> >>

\* C18: once the quit key has been handled (exit is true inside run), the
\* iteration still makes its tick check, which advances the grid exactly
\* when the tick interval has elapsed; after it the loop test ends run with
\* Ok: there is no further render, no further poll or read, and no advance
\* beyond that one.
C18_CooperativeQuit ==
    [][(exit /\ InRun) =>
        /\ pc \in {"tick", "loop"}
        /\ ~RenderStep /\ ~ReadStep
        /\ pc = "tick" =>
              /\ pc' = "loop"
              /\ AdvanceStep <=> elapsed >= tick_rate
              /\ iter.advances = 0
        /\ pc = "loop" =>
              /\ ~AdvanceStep
              /\ pc' = "returned" /\ run_result' = "Ok"]_vars

\* C18 witness: run has returned after an iteration in which 'q' was read
\* before the tick interval had elapsed: no advance followed the key.
C18_Witness ==
    /\ pc = "returned"
    /\ exit
    /\ run_result = "Ok"
    /\ tick_rate = 33
    /\ iter = [renders |-> 1, reads |-> 1, advances |-> 0]

\* C19: an iteration renders once, then reads at most one input event,
\* then advances at most one generation, in this order.  An advance restarts
\* the timer from zero however long the iteration took, so the ticks missed
\* meanwhile are not made up for; a read takes one waiting event and leaves
\* the others for later iterations.
C19_OnePerIteration ==
    /\ [](InRun =>
            /\ iter.renders <= 1 /\ iter.reads <= 1 /\ iter.advances <= 1
            /\ pc = "poll" => iter = [renders |-> 1, reads |-> 0, advances |-> 0]
            /\ pc = "tick" => (iter.renders = 1 /\ iter.advances = 0)
            /\ (iter.reads = 1 \/ iter.advances = 1) => iter.renders = 1)
    /\ [][/\ RenderStep => iter'.renders = 1
          /\ ReadStep => (pc = "poll" /\ pc' = "tick")
          /\ AdvanceStep => (pc = "tick" /\ pc' = "loop" /\ elapsed' = 0)
          /\ (InRun /\ pc' = "tick") =>
                pending' = IF pending > 0 /\ ReadStep THEN pending - 1 ELSE pending
          /\ (InRun /\ pc' # "poll") => pending' <= pending]_vars

\* C19 witness: at a tick interval of 33 ms an iteration has taken two
\* intervals or more to render, has read one of two waiting events and is at
\* its tick check.
C19_Witness ==
    /\ pc = "tick"
    /\ tick_rate = 33
    /\ elapsed >= 2 * tick_rate
    /\ iter = [renders |-> 1, reads |-> 1, advances |-> 0]
    /\ pending = 1

\* run has computed its tick interval.
Entered == InRun \/ pc = "returned"

\* C21: run computes the tick interval once, on entry, as floor(1000 / speed)
\* ms, and it never changes afterwards, nor does speed; it is at least 1 ms
\* for every speed from 1 to 1000 and 0 ms for every speed above 1000, and
\* then the poll is given a timeout of zero and every iteration that reaches
\* its tick check advances the grid.
C21_TickInterval ==
    /\ [](Entered =>
            /\ tick_rate * speed <= 1000 /\ 1000 < (tick_rate + 1) * speed
            /\ (speed >= 1 /\ speed <= 1000) => tick_rate >= 1
            /\ speed > 1000 => (tick_rate = 0 /\ timeout = 0))
    /\ [][Entered => (tick_rate' = tick_rate /\ speed' = speed)]_vars
    /\ [][(pc = "poll" /\ speed > 1000) => elapsed' = elapsed]_vars
    /\ [][(pc = "tick" /\ speed > 1000) => AdvanceStep]_vars

\* C21 witness: at 1001 ticks per second the interval is 0 ms and an
\* iteration in which no event was read has advanced the grid.
C21_Witness ==
    /\ pc = "loop"
    /\ speed = 1001
    /\ tick_rate = 0
    /\ iter = [renders |-> 1, reads |-> 0, advances |-> 1]

(***************************************************************************)
(* Claims about pattern centering (checked under SpecPad).                 *)
(***************************************************************************)
PadDone == pad_out # <<>>

PadIsDecoded == pad_in.fn = "padding_grid"

PadLines == pattern_lines_of(pad_in.text)

\* The size pw x ph of the pattern the initializer was given.
PadPW == IF PadIsDecoded THEN pad_in.universe.width ELSE max_len(PadLines)

PadPH == IF PadIsDecoded THEN pad_in.universe.height ELSE Len(PadLines)

\* Pattern cell (r, c): the decoded cell, or whether character c of line r
\* exists and is not '.'.
PatternCell(r, c) ==
    IF PadIsDecoded
    THEN pad_in.universe.cells[r * PadPW + c + 1]
    ELSE c < Len(PadLines[r + 1]) /\ PadLines[r + 1][c + 1] # "."

\* C4: a pattern of size pw x ph with 1 <= pw <= w and 1 <= ph <= h is placed
\* so that pattern cell (r, c) is grid cell (floor((h-ph)/2) + r,
\* floor((w-pw)/2) + c), every other grid cell is dead, and so the padding
\* above and to the left never exceeds the padding below and to the right.
C4_Centering ==
    (/\ PadDone
     /\ 1 <= PadPW /\ PadPW <= pad_in.width
     /\ 1 <= PadPH /\ PadPH <= pad_in.height) =>
        LET top  == (pad_in.height - PadPH) \div 2
            left == (pad_in.width - PadPW) \div 2
            g    == pad_out[1].grid
        IN  /\ pad_out[1].status = "Ok"
            /\ Len(g) = pad_in.height
            /\ \A i \in 0..(pad_in.height - 1) :
                /\ Len(g[i + 1]) = pad_in.width
                /\ \A j \in 0..(pad_in.width - 1) :
                    g[i + 1][j + 1] =
                        IF /\ i >= top /\ i < top + PadPH
                           /\ j >= left /\ j < left + PadPW
                        THEN PatternCell(i - top, j - left)
                        ELSE FALSE
            /\ top <= pad_in.height - PadPH - top
            /\ left <= pad_in.width - PadPW - left

\* C4 witness: padding_grid has placed a single live cell into a grid 1 wide
\* and 4 high: one dead row above it, two below.
C4_Witness ==
    /\ PadDone
    /\ pad_in.fn = "padding_grid"
    /\ pad_in.width = 1 /\ pad_in.height = 4
    /\ pad_in.universe = [width |-> 1, height |-> 1, cells |-> <<TRUE>>]
    /\ pad_out[1].grid = << <<FALSE>>, <<TRUE>>, <<FALSE>>, <<FALSE>> >>


\* The pattern rows of a text, stated on the text itself: the maximal runs of
\* characters between line breaks (so never empty) that do not begin with
\* '!', as <<first, last>> positions.
KeptRuns(text) ==
    {s \in (1..Len(text)) \X (1..Len(text)) :
        /\ s[1] <= s[2]
        /\ \A i \in s[1]..s[2] : text[i] # "\n"
        /\ s[1] = 1 \/ text[s[1] - 1] = "\n"
        /\ s[2] = Len(text) \/ text[s[2] + 1] = "\n"
        /\ text[s[1]] # "!"}

\* The r-th of them in file order, counted from 0.
KeptRun(text, r) ==
    CHOOSE s \in KeptRuns(text) :
        Cardinality({t \in KeptRuns(text) : t[1] < s[1]}) = r

\* The length of a run as str::len gives it.
RunLen(text, s) == str_len(SubSeq(text, s[1], s[2]))

LongestRun(text) ==
    IF KeptRuns(text) = {} THEN 0
    ELSE CHOOSE n \in {RunLen(text, s) : s \in KeptRuns(text)} :
            \A s \in KeptRuns(text) : RunLen(text, s) <= n

C20_PatternTotal ==
    (PadDone /\ PadPW <= pad_in.width /\ PadPH <= pad_in.height) =>
        /\ pad_out[1].status = "Ok"
        /\ WellFormed(pad_out[1].grid, [width |-> pad_in.width, height |-> pad_in.height])
        /\ (PadPW = 0 \/ PadPH = 0) =>
              \A i \in 1..pad_in.height, j \in 1..pad_in.width : ~pad_out[1].grid[i][j]

====
